---- MODULE Spec2Model ----
(***************************************************************************)
(* A model of src/src/components/ProductTesting.tsx: the record store as   *)
(* the component uses it (Product, ComponentTest, ProductPhoto), the       *)
(* component's React state, and its asynchronous handlers.  A handler is   *)
(* cut at its awaits: JavaScript runs the code between two awaits to       *)
(* completion, so each action is one such stretch of code.  The values a   *)
(* handler reads from the render that created it (selectedProduct,         *)
(* components, photos, emailAddress, newProduct, selectedProductId) are    *)
(* captured when the handler starts and are not re-read after an await.    *)
(*                                                                         *)
(* Strings whose characters matter (product names, file names, URI         *)
(* components) are sequences of one-character strings.                     *)
(***************************************************************************)
EXTENDS Integers, Sequences, FiniteSets, TLC

VARIABLES
    \* ---- inputs and results of the pure functions (SpecFileName, SpecIcon)
    pName,              \* a product name
    pNow,               \* the value Date.now() returns
    pFile,              \* the derived download file name, or NoFile
    pIcons,             \* status string -> the markers getStatusIcon returned for it
    \* ---- the record store
    products,           \* set of Product records
    comps,              \* sequence of ComponentTest records (id = position)
    photos,             \* set of ProductPhoto records
    nextProductId,      \* store-assigned ids
    nextPhotoId,
    \* ---- React state of the component
    selectedProductId,
    showAddProduct,
    showExportModal,
    newProduct,         \* the new-product draft as of the last render
    draftLog,           \* the photos read and components added, less the removed ones
    reading,            \* files a FileReader of handlePhotoUpload is still reading
    emailAddress,
    isGeneratingDoc,
    showInventorySearch,
    inventorySearchId,
    pending,            \* state name -> the value queued for it, shown at the next render
    \* ---- environment
    clock,              \* Date.now()
    \* ---- handler invocations in flight and what they did
    exports,            \* export invocation -> its position, captured values, calls
    adds,               \* handleAddProduct invocation -> its position
    dels,               \* handleDeleteProduct invocation -> its position
    searches,           \* handleSearchByInventoryId calls awaiting queryProducts
    updating,           \* the updateComponent call a status or notes handler awaits
    statusLog           \* which components handleUpdateComponentStatus has updated

pureVars   == <<pName, pNow, pFile, pIcons>>
storeVars  == <<products, comps, photos, nextProductId, nextPhotoId>>
draftVars  == <<newProduct, draftLog, reading>>
searchVars == <<showInventorySearch, inventorySearchId, searches>>
uiVars     == <<selectedProductId, showAddProduct, showExportModal, draftVars,
                emailAddress, isGeneratingDoc, searchVars, pending>>
exportVars == <<exports>>
updateVars == <<updating, statusLog>>
crudVars   == <<adds, dels, updateVars>>
vars       == <<pureVars, storeVars, uiVars, clock, exportVars, crudVars>>

---------------------------------------------------------------------------
(* Bounds of the model *)

MaxNameLen == 4         \* longest product name drawn for the file-name function
MaxTime    == 1         \* Date.now() runs from 0 to MaxTime
NumExports == 2         \* export invocations in a run (they may overlap)
NumAdds    == 1         \* handleAddProduct invocations in a run
NumDels    == 1         \* handleDeleteProduct invocations in a run
MaxDraftComponents == 1 \* components a draft holds
MaxDraftPhotos     == 1 \* photos a draft holds
MaxSearches        == 1 \* handleSearchByInventoryId calls in flight
MaxInitDraft       == 2 \* components, photos of a draft typed before the run; photos read

Null == "null"          \* a null id or a string not yet set
NoProduct == ""         \* the empty product reference of `selectedProductId || ''`
Absent == <<>>          \* undefined: an optional value is <<>> or <<value>>
ProductIdNames == <<"p1", "p2", "p3", "p4", "p5">>   \* the ids the store assigns

---------------------------------------------------------------------------
(* Characters and strings *)

Whitespace == {" ", "\t"}           \* characters /\s/ matches, among those drawn
NameChars  == {"W", "P", "_", " ", "\t"}

IsWhitespace(c) == c \in Whitespace

SeqsUpTo(S, n) == UNION {[1..k -> S] : k \in 0..n}

DigitChars == <<"0", "1", "2", "3", "4", "5", "6", "7", "8", "9">>

\* String(n) for a non-negative integer: its decimal digits.
RECURSIVE NumberToString(_)
NumberToString(n) ==
    IF n < 10 THEN <<DigitChars[n + 1]>>
    ELSE NumberToString(n \div 10) \o <<DigitChars[(n % 10) + 1]>>

\* The rest of s after the longest run of whitespace at its front (\s+ is greedy).
RECURSIVE SkipWhitespace(_)
SkipWhitespace(s) ==
    IF s # <<>> /\ IsWhitespace(Head(s)) THEN SkipWhitespace(Tail(s)) ELSE s

\* s.replace(/\s/g, '_'): every whitespace character becomes its own '_'.
RECURSIVE ReplaceEachWhitespace(_)
ReplaceEachWhitespace(s) ==
    IF s = <<>> THEN <<>>
    ELSE <<IF IsWhitespace(Head(s)) THEN "_" ELSE Head(s)>>
            \o ReplaceEachWhitespace(Tail(s))

\* s.replace(/\s+/g, '_'): scanning left to right, a match of \s+ is replaced
\* by '_' and the scan goes on after it; any other character is copied.
RECURSIVE ReplaceWhitespace(_)
ReplaceWhitespace(s) ==
    IF s = <<>> THEN <<>>
    ELSE IF IsWhitespace(Head(s))
         THEN <<"_">> \o ReplaceWhitespace(SkipWhitespace(s))
         ELSE <<Head(s)>> \o ReplaceWhitespace(Tail(s))

TestReportTs == <<"_", "t", "e", "s", "t", "_", "r", "e", "p", "o", "r", "t", "_">>
TestReport   == <<"_", "t", "e", "s", "t", "_", "r", "e", "p", "o", "r", "t">>
DocxExt      == <<".", "d", "o", "c", "x">>

\* a.download of handleDownloadWordReport
DownloadFileName(name, now) ==
    ReplaceWhitespace(name) \o TestReportTs \o NumberToString(now) \o DocxExt

\* a.download of handleEmailReport
EmailFileName(name) ==
    ReplaceWhitespace(name) \o TestReport \o DocxExt

---------------------------------------------------------------------------
(* getStatusIcon *)

CheckCircle == [icon |-> "CheckCircle", className |-> "w-5 h-5 text-green-500"]
XCircle     == [icon |-> "XCircle",     className |-> "w-5 h-5 text-red-500"]
Circle      == [icon |-> "Circle",      className |-> "w-5 h-5 text-gray-400"]

\* getStatusIcon with the 'not-working' case missing
getStatusIconNoCase(status) ==
    CASE status = "working" -> CheckCircle
      [] OTHER              -> Circle

getStatusIcon(status) ==
    CASE status = "working"     -> CheckCircle
      [] status = "not-working" -> XCircle
      [] OTHER                  -> Circle

Statuses     == {"working", "not-working", "untested"}
\* status strings handed to getStatusIcon: the three of the enum and others
StatusInputs == Statuses \cup {"", "Working", "not working", "broken"}

---------------------------------------------------------------------------
(* encodeURIComponent over the texts of the mailto: link.  A text is a      *)
(* sequence of items: single characters (the product's name and inventory  *)
(* id) and the chunks of the template literals of lines 247-248.            *)

SubjectHead == "Product Testing Report: "
SubjectMid  == " (ID: "
SubjectTail == ")"
BodyHead    == "Please find attached the testing report for "
BodyInv     == ".\n\nInventory ID: "
BodyDate    == "\nTest Date: "
BodyNote    == "\n\nNote: The Word document has been downloaded to your computer. Please attach it to this email."

\* new Date().toLocaleDateString(): every Date.now() of the model is a
\* millisecond of the same day.
LocaleDateString(now) == <<"1/1/1970">>

EncodeTable ==
    {<<" ", "%20">>, <<"\t", "%09">>,
     <<SubjectHead, "Product%20Testing%20Report%3A%20">>,
     <<SubjectMid, "%20(ID%3A%20">>,
     <<BodyHead, "Please%20find%20attached%20the%20testing%20report%20for%20">>,
     <<BodyInv, ".%0A%0AInventory%20ID%3A%20">>,
     <<BodyDate, "%0ATest%20Date%3A%20">>,
     <<BodyNote, "%0A%0ANote%3A%20The%20Word%20document%20has%20been%20downloaded%20to%20your%20computer.%20Please%20attach%20it%20to%20this%20email.">>,
     <<"1/1/1970", "1%2F1%2F1970">>}

\* unreserved characters (letters, digits, - _ . ! ~ * ' ( )) are kept
EncodeItem(x) ==
    IF \E p \in EncodeTable : p[1] = x
    THEN (CHOOSE p \in EncodeTable : p[1] = x)[2]
    ELSE x

encodeURIComponent(text) == [k \in 1..Len(text) |-> EncodeItem(text[k])]

DecodeItem(x) ==
    IF \E p \in EncodeTable : p[2] = x
    THEN (CHOOSE p \in EncodeTable : p[2] = x)[1]
    ELSE x

decodeURIComponent(text) == [k \in 1..Len(text) |-> DecodeItem(text[k])]

\* line 247
EmailSubject(product) ==
    encodeURIComponent(<<SubjectHead>> \o product.name \o <<SubjectMid>>
                       \o product.inventoryId \o <<SubjectTail>>)

\* line 248
EmailBody(product, now) ==
    encodeURIComponent(<<BodyHead>> \o product.name \o <<BodyInv>>
                       \o product.inventoryId \o <<BodyDate>>
                       \o LocaleDateString(now) \o <<BodyNote>>)

\* line 250: `mailto:${emailAddress}?subject=${subject}&body=${body}`
MailtoUrl(address, subject, body) ==
    [to |-> address, subject |-> subject, body |-> body]

---------------------------------------------------------------------------
(* The record store and the queries of lines 29-44 *)

ProductIds == {r.id : r \in products}

\* useQuery('Product', selectedProductId || '')
selectedProduct ==
    IF selectedProductId \in ProductIds
    THEN <<CHOOSE r \in products : r.id = selectedProductId>>
    ELSE Absent

\* query('ComponentTest', { where: { productId } }): the matching records, in
\* store order
ComponentsOf(productId) == SelectSeq(comps, LAMBDA c : c.productId = productId)

\* query('ProductPhoto', { where: { productId } }), ordered by id
RECURSIVE SortById(_)
SortById(S) ==
    IF S = {} THEN <<>>
    ELSE LET first == CHOOSE r \in S : \A q \in S : r.id <= q.id
         IN  <<first>> \o SortById(S \ {first})

PhotosOf(productId) == SortById({r \in photos : r.productId = productId})

\* useQuery data of the current render for the selected product
SelectedOrEmpty == IF selectedProductId = Null THEN NoProduct ELSE selectedProductId
components      == ComponentsOf(SelectedOrEmpty)
selectedPhotos  == PhotosOf(SelectedOrEmpty)

---------------------------------------------------------------------------
(* State updates and renders.  A set call in a React event handler is      *)
(* rendered before the next event.  A set call made after an await or in    *)
(* reader.onload is queued: the component keeps showing, and its handlers   *)
(* keep closing over, the values of the last render until React renders     *)
(* the queued updates, and an event can be handled before that.             *)

NoPending == [name \in {} |-> TRUE]

\* the queued updates after set calls made outside an event handler
Queue(updates) == updates @@ pending

\* the queued updates after set calls of an event handler on the named
\* states: the value the handler set is the last one for that state
Overrides(names) == [name \in (DOMAIN pending) \ names |-> pending[name]]

\* the value the next render shows for a state
Shown(name, value) == IF name \in DOMAIN pending THEN pending[name] ELSE value

\* the render React scheduled for the queued updates
Render ==
    /\ DOMAIN pending # {}
    /\ selectedProductId' = Shown("selectedProductId", selectedProductId)
    /\ showAddProduct' = Shown("showAddProduct", showAddProduct)
    /\ showExportModal' = Shown("showExportModal", showExportModal)
    /\ newProduct' = Shown("newProduct", newProduct)
    /\ emailAddress' = Shown("emailAddress", emailAddress)
    /\ isGeneratingDoc' = Shown("isGeneratingDoc", isGeneratingDoc)
    /\ showInventorySearch' = Shown("showInventorySearch", showInventorySearch)
    /\ inventorySearchId' = Shown("inventorySearchId", inventorySearchId)
    /\ pending' = NoPending
    /\ UNCHANGED <<pureVars, storeVars, draftLog, reading, searches, clock,
                   exportVars, crudVars>>

\* time passes between two steps: Date.now() (line 216) and new Date()
\* (line 132) give the value of the clock at the moment they are called
Tick ==
    /\ clock < MaxTime
    /\ clock' = clock + 1
    /\ UNCHANGED <<pureVars, storeVars, uiVars, exportVars, crudVars>>

---------------------------------------------------------------------------
(* The export handlers: handleDownloadWordReport and handleEmailReport.    *)
(* Each invocation records, in order, the calls it made to its              *)
(* collaborators: captureScreenshot, generateWordDocument, the file save,  *)
(* the email composer, alert.                                               *)

ExportIds == 1..NumExports

IdleExport ==
    [pc |-> "idle", kind |-> Null,
     product |-> [id |-> NoProduct, inventoryId |-> <<>>, name |-> <<>>,
                 description |-> "", price |-> 0],
     components |-> <<>>, photos |-> <<>>, email |-> "",
     screenshot |-> Absent, calls |-> <<>>, built |-> Null, packed |-> Null]

\* the calls of one type an invocation made, in order
CallsOf(e, type) == SelectSeq(e.calls, LAMBDA c : c.type = type)

\* captureScreenshot without its try/catch: a renderer failure is thrown on
captureScreenshotNoCatch(outcome, image) ==
    CASE outcome = "refMissing"     -> [threw |-> FALSE, value |-> Absent]
      [] outcome = "image"          -> [threw |-> FALSE, value |-> <<image>>]
      [] outcome = "rendererFailed" -> [threw |-> TRUE,  value |-> Absent]

\* captureScreenshot: what a call gives its caller, by what happened inside
\* it; image is what canvas.toDataURL made in this call
captureScreenshot(outcome, image) ==
    CASE outcome = "refMissing"     -> [threw |-> FALSE, value |-> Absent]
      [] outcome = "image"          -> [threw |-> FALSE, value |-> <<image>>]
      [] outcome = "rendererFailed" -> [threw |-> FALSE, value |-> Absent]

\* a screenshot some other invocation holds, if one does
OthersScreenshot(i) ==
    LET others == {j \in ExportIds \ {i} : exports[j].screenshot # Absent}
    IN  IF others = {} THEN Absent
        ELSE exports[CHOOSE j \in others : TRUE].screenshot

\* the builder called with a screenshot kept where the invocations share it
BuilderArgumentsShared(i, e, screenshot) ==
    [product |-> e.product, components |-> e.components, photos |-> e.photos,
     screenshot |-> IF OthersScreenshot(i) = Absent THEN screenshot
                    ELSE OthersScreenshot(i)]

\* generateWordDocument(selectedProduct, components, photos, screenshot) of
\* lines 210 and 235: the render's values the handler closed over, and the
\* invocation's own screenshot
BuilderArguments(i, e, screenshot) ==
    [product |-> e.product, components |-> e.components, photos |-> e.photos,
     screenshot |-> screenshot]

\* generateWordDocument (lib/wordExport): the document object built by
\* invocation i out of the arguments of its call
generateWordDocument(i, args) ==
    [builtBy |-> i, product |-> args.product, components |-> args.components,
     photos |-> args.photos, screenshot |-> args.screenshot]

\* Packer.toBlob(doc)
ToBlob(doc) == [doc |-> doc]

\* the blob some other invocation saved, if one did
OthersSavedBlob(i) ==
    LET others == {j \in ExportIds \ {i} : CallsOf(exports[j], "save") # <<>>}
    IN  IF others = {} THEN Absent
        ELSE <<CallsOf(exports[CHOOSE j \in others : TRUE], "save")[1].blob>>

\* an export that hands out again the artifact an earlier export saved
BlobToSaveCached(i, blob) ==
    IF OthersSavedBlob(i) = Absent THEN blob ELSE OthersSavedBlob(i)[1]

\* the blob behind a.href: the one this invocation packed (lines 211-215, 236-240)
BlobToSave(i, blob) == blob

\* a handler whose delivery does not wait for the build and the packing
ReachesDeliveryAlways(ok) == TRUE

\* inside try: a rejected await skips the rest of the block (lines 208-223, 233-255)
ReachesDelivery(ok) == ok

AlertMessage(kind) ==
    IF kind = "download" THEN "Failed to generate document. Please try again."
    ELSE "Failed to prepare email. Please try again."

\* a composer with no recipient
ComposerForNobody(e, now) ==
    MailtoUrl("", EmailSubject(e.product), EmailBody(e.product, now))

\* window.location.href of line 250
ComposerFor(e, now) ==
    MailtoUrl(e.email, EmailSubject(e.product), EmailBody(e.product, now))

\* catch and finally of both handlers: the alert, then setIsGeneratingDoc(false)
ExportFail(i, e) ==
    /\ exports' = [exports EXCEPT ![i] =
                       [e EXCEPT !.pc = "done",
                                 !.calls = Append(@, [type |-> "alert",
                                                      message |-> AlertMessage(e.kind)])]]
    /\ pending' = Queue("isGeneratingDoc" :> FALSE)

\* the call of generateWordDocument once captureScreenshot has returned
ExportCallBuilder(i, e, got) ==
    IF got.threw
    THEN ExportFail(i, e)
    ELSE /\ exports' = [exports EXCEPT ![i] =
                            [e EXCEPT !.pc = "build", !.screenshot = got.value,
                                      !.calls = Append(@,
                                          [type |-> "build",
                                           args |-> BuilderArguments(i, e, got.value)])]]
         /\ UNCHANGED pending

\* A click on an export button of the export modal: the guard,
\* setIsGeneratingDoc(true) and the call of captureScreenshot up to its await
\* of html2canvas.  The panel behind testPanelRef (line 401) is rendered
\* whenever selectedProduct passes the guard.  The buttons lie in the part of
\* the file that is not available, so nothing but the handlers' own guards
\* (lines 205, 230) keeps a click from starting an export.
ExportStart(i, kind) ==
    /\ exports[i].pc = "idle"
    /\ i > 1 => exports[i - 1].pc # "idle"
    /\ showExportModal
    /\ selectedProduct # Absent
    /\ kind = "email" => emailAddress # ""
    /\ exports' = [exports EXCEPT ![i] =
                       [IdleExport EXCEPT
                           !.pc = "capture",
                           !.kind = kind, !.product = selectedProduct[1],
                           !.components = components, !.photos = selectedPhotos,
                           !.email = IF kind = "email" THEN emailAddress ELSE "",
                           !.calls = <<[type |-> "capture", outcome |-> "pending"]>>]]
    /\ isGeneratingDoc' = TRUE
    /\ pending' = Overrides({"isGeneratingDoc"})
    /\ UNCHANGED <<pureVars, storeVars, clock, crudVars, selectedProductId,
                   showAddProduct, showExportModal, draftVars, emailAddress,
                   searchVars>>

\* html2canvas settles; captureScreenshot returns and the builder is called
ExportCaptureDone(i, rendered) ==
    /\ exports[i].pc = "capture"
    /\ LET outcome == IF rendered THEN "image" ELSE "rendererFailed"
           e == [exports[i] EXCEPT
                    !.calls = <<[type |-> "capture", outcome |-> outcome]>>]
       IN  ExportCallBuilder(i, e, captureScreenshot(outcome, [capturedBy |-> i]))
    /\ UNCHANGED <<pureVars, storeVars, clock, crudVars, selectedProductId,
                   showAddProduct, showExportModal, draftVars, emailAddress,
                   isGeneratingDoc, searchVars>>

\* generateWordDocument settles; on success Packer.toBlob is called
ExportBuildDone(i, ok) ==
    /\ exports[i].pc = "build"
    /\ LET e == [exports[i] EXCEPT !.built = IF ok THEN "ok" ELSE "failed"]
       IN  IF ReachesDelivery(ok)
           THEN /\ exports' = [exports EXCEPT ![i] = [e EXCEPT !.pc = "pack"]]
                /\ UNCHANGED pending
           ELSE ExportFail(i, e)
    /\ UNCHANGED <<pureVars, storeVars, clock, crudVars, selectedProductId,
                   showAddProduct, showExportModal, draftVars, emailAddress,
                   isGeneratingDoc, searchVars>>

\* Packer.toBlob settles; on success the file is saved and the email path
\* opens the composer; its setShowExportModal(false) and setEmailAddress('')
\* and the setIsGeneratingDoc(false) of finally are queued
ExportPackDone(i, ok) ==
    /\ exports[i].pc = "pack"
    /\ LET e    == [exports[i] EXCEPT !.packed = IF ok THEN "ok" ELSE "failed"]
           args == CallsOf(e, "build")[1].args
           blob == ToBlob(generateWordDocument(i, args))
           file == IF e.kind = "download"
                   THEN DownloadFileName(e.product.name, clock)
                   ELSE EmailFileName(e.product.name)
           save == [type |-> "save", filename |-> file, blob |-> BlobToSave(i, blob)]
           mail == [type |-> "composer", url |-> ComposerFor(e, clock)]
       IN  IF ReachesDelivery(ok)
           THEN /\ exports' = [exports EXCEPT ![i] =
                                [e EXCEPT !.pc = "done",
                                          !.calls = IF e.kind = "email"
                                                    THEN @ \o <<save, mail>>
                                                    ELSE Append(@, save)]]
                /\ pending' =
                     Queue(IF e.kind = "email"
                           THEN ("showExportModal" :> FALSE) @@ ("emailAddress" :> "")
                                @@ ("isGeneratingDoc" :> FALSE)
                           ELSE "isGeneratingDoc" :> FALSE)
           ELSE ExportFail(i, e)
    /\ UNCHANGED <<pureVars, storeVars, clock, crudVars, selectedProductId,
                   showAddProduct, showExportModal, draftVars, emailAddress,
                   isGeneratingDoc, searchVars>>

---------------------------------------------------------------------------
(* Status and note edits of the selected product's components *)

ComponentIds == 1..Len(comps)
\* the component cards: the panel is rendered for a selected product that
\* exists (line 400), one card per component of the query (line 443)
ShownComponentIds ==
    IF selectedProduct = Absent THEN {}
    ELSE {components[k].id : k \in 1..Len(components)}

NoteInputs == {"loose"}

\* the status buttons pressed in the runs of the store handlers
PressedStatuses == {"untested", "working"}

\* an update that leaves the last-tested time alone
StatusPatchNoTestedAt(status, now) == [status |-> status, testedAt |-> Absent]

\* the fields handleUpdateComponentStatus sends (lines 130-133)
StatusPatch(status, now) == [status |-> status, testedAt |-> <<now>>]

AddIds == 1..NumAdds
DelIds == 1..NumDels

\* no status or notes update is awaited
NoUpdate == <<>>

\* isPending of useMutation('ComponentTest'): a createComponent or an
\* updateComponent call of this component has not settled
isComponentMutating ==
    \/ updating # NoUpdate
    \/ \E a \in AddIds : adds[a].pc = "createComponent"
    \/ \E d \in DelIds : dels[d].pc = "updateComponent"

\* a status button or the notes textarea of a rendered card can be used
CardEnabled(c) == c \in ShownComponentIds /\ ~isComponentMutating

\* handleUpdateComponentStatus(componentId, status) up to its await: one of
\* the three buttons of a component card (lines 449, 461, 473)
handleUpdateComponentStatus(c, status) ==
    /\ CardEnabled(c)
    /\ updating' = <<[component |-> c, kind |-> "status",
                      patch |-> StatusPatch(status, clock)]>>
    /\ UNCHANGED <<pureVars, storeVars, uiVars, clock, exportVars, adds, dels,
                   statusLog>>

\* handleUpdateComponentNotes(componentId, notes) up to its await: the
\* textarea's onBlur (line 489)
handleUpdateComponentNotes(c, notes) ==
    /\ CardEnabled(c)
    /\ updating' = <<[component |-> c, kind |-> "notes", patch |-> [notes |-> notes]]>>
    /\ UNCHANGED <<pureVars, storeVars, uiVars, clock, exportVars, adds, dels,
                   statusLog>>

\* the awaited updateComponent settles: the patch is written to the record
\* as it is now, or the handler's catch logs the error
UpdateComponentSettled(ok) ==
    /\ updating # NoUpdate
    /\ updating' = NoUpdate
    /\ LET u == updating[1]
           c == u.component
       IN  IF ok /\ u.kind = "status"
           THEN /\ comps' = [comps EXCEPT ![c].status = u.patch.status,
                                          ![c].testedAt =
                                              IF u.patch.testedAt = Absent THEN @
                                              ELSE u.patch.testedAt]
                /\ statusLog' =
                     [updated |-> statusLog.updated \cup {c},
                      changed |-> statusLog.changed \cup
                                    (IF comps[c].status # u.patch.status THEN {c}
                                     ELSE {})]
           ELSE IF ok
           THEN /\ comps' = [comps EXCEPT ![c].notes = u.patch.notes]
                /\ UNCHANGED statusLog
           ELSE UNCHANGED <<comps, statusLog>>
    /\ UNCHANGED <<pureVars, products, photos, nextProductId, nextPhotoId, uiVars,
                   clock, exportVars, adds, dels>>

---------------------------------------------------------------------------
(* Events of the interface *)

\* the product card's onClick (line 341)
SelectProduct(p) ==
    /\ p \in ProductIds \cup Shown("deleted", {})
    /\ selectedProductId' = p
    /\ pending' = Overrides({"selectedProductId"})
    /\ UNCHANGED <<pureVars, storeVars, showAddProduct, showExportModal, draftVars,
                   emailAddress, isGeneratingDoc, clock, exportVars, crudVars,
                   searchVars>>

\* the Export Report button of the panel of the selected product (line 410)
OpenExportModal ==
    /\ selectedProduct # Absent
    /\ showExportModal' = TRUE
    /\ pending' = Overrides({"showExportModal"})
    /\ UNCHANGED <<pureVars, storeVars, selectedProductId, showAddProduct, draftVars,
                   emailAddress, isGeneratingDoc, clock, exportVars, crudVars,
                   searchVars>>

EmailInputs == {"qa@lab.io"}

\* typing the recipient in the export modal (setEmailAddress, line 23)
TypeEmail(a) ==
    /\ showExportModal
    /\ selectedProduct # Absent
    /\ emailAddress # a
    /\ emailAddress' = a
    /\ pending' = Overrides({"emailAddress"})
    /\ UNCHANGED <<pureVars, storeVars, selectedProductId, showAddProduct,
                   showExportModal, draftVars, isGeneratingDoc, clock, exportVars,
                   crudVars,
                   searchVars>>

---------------------------------------------------------------------------
(* The export specification: a store of one product, the exports of a run *)

EmptyDraft == [inventoryId |-> <<>>, name |-> <<>>, description |-> "", price |-> 0,
               photos |-> <<>>, components |-> <<>>]

EmptyLog == [photos |-> <<>>, components |-> <<>>]

SearchIdle ==
    /\ showInventorySearch = FALSE
    /\ inventorySearchId = <<>>
    /\ searches = <<>>

NoFile == <<>>

PureIdle ==
    /\ pName = <<>>
    /\ pNow = 0
    /\ pFile = NoFile
    /\ pIcons = [s \in StatusInputs |-> {}]

\* created: the records the invocation's create calls returned, in call order
IdleAdd == [pc |-> "idle", draft |-> EmptyDraft, productId |-> NoProduct, k |-> 0,
            created |-> <<>>]
IdleDel == [pc |-> "idle", id |-> NoProduct, selected |-> Null,
            comps |-> <<>>, photos |-> <<>>, k |-> 0]

CrudIdle ==
    /\ adds = [a \in AddIds |-> IdleAdd]
    /\ dels = [d \in DelIds |-> IdleDel]
    /\ updating = NoUpdate
    /\ statusLog = [updated |-> {}, changed |-> {}]

StoreEmpty ==
    /\ products = {}
    /\ comps = <<>>
    /\ photos = {}
    /\ nextProductId = 1
    /\ nextPhotoId = 1

UiIdle ==
    /\ selectedProductId = Null
    /\ showAddProduct = FALSE
    /\ showExportModal = FALSE
    /\ newProduct = EmptyDraft
    /\ pending = NoPending
    /\ draftLog = EmptyLog
    /\ reading = <<>>
    /\ emailAddress = ""
    /\ isGeneratingDoc = FALSE
    /\ SearchIdle

ExportIdle == exports = [i \in ExportIds |-> IdleExport]

WidgetPro == <<"W", " ", " ", "P">>

\* the status button pressed between exports
ExportStatusInputs == {"working"}

InitExport ==
    /\ PureIdle
    /\ CrudIdle
    /\ ExportIdle
    /\ products = {[id |-> "p1", inventoryId |-> <<"I", "1">>, name |-> WidgetPro,
                   description |-> "", price |-> 0]}
    /\ comps = <<[id |-> 1, productId |-> "p1", name |-> "screen", status |-> "untested",
                  notes |-> "", testedAt |-> Absent]>>
    /\ photos = {[id |-> 1, productId |-> "p1", url |-> "data:front"]}
    /\ nextProductId = 2
    /\ nextPhotoId = 2
    /\ selectedProductId = Null
    /\ showAddProduct = FALSE
    /\ showExportModal = FALSE
    /\ newProduct = EmptyDraft
    /\ pending = NoPending
    /\ draftLog = EmptyLog
    /\ reading = <<>>
    /\ emailAddress = ""
    /\ isGeneratingDoc = FALSE
    /\ SearchIdle
    /\ clock \in 0..MaxTime

NextExport ==
    \/ Tick
    \/ \E p \in ProductIds \cup Shown("deleted", {}) : SelectProduct(p)
    \/ OpenExportModal
    \/ \E a \in EmailInputs : TypeEmail(a)
    \/ \E c \in ComponentIds, st \in ExportStatusInputs :
           handleUpdateComponentStatus(c, st)
    \/ \E ok \in BOOLEAN : UpdateComponentSettled(ok)
    \/ \E i \in ExportIds, kind \in {"download", "email"} : ExportStart(i, kind)
    \/ Render
    \/ \E i \in ExportIds, rendered \in BOOLEAN : ExportCaptureDone(i, rendered)
    \/ \E i \in ExportIds, ok \in BOOLEAN : ExportBuildDone(i, ok)
    \/ \E i \in ExportIds, ok \in BOOLEAN : ExportPackDone(i, ok)

SpecExport == InitExport /\ [][NextExport]_vars

---------------------------------------------------------------------------
(* The new-product draft and handleAddProduct *)

NameInputs          == {<<"W">>}
InventoryInputs     == {<<"I">>}
ComponentNameInputs == {"screen"}
PhotoInputs         == {"data:front"}
DescriptionInputs   == {"x"}
PriceTexts          == {<<"5">>, <<>>}   \* what the number input holds after a key

\* isPending of useMutation('Product'): a createProduct or a deleteProduct
\* call has not settled
isProductMutating ==
    \/ \E a \in AddIds : adds[a].pc = "createProduct"
    \/ \E d \in DelIds : dels[d].pc = "deleteProduct"

\* the Add Product button of the header (line 315)
OpenAddProduct ==
    /\ showAddProduct' = TRUE
    /\ pending' = Overrides({"showAddProduct"})
    /\ UNCHANGED <<pureVars, storeVars, selectedProductId, showExportModal, draftVars,
                   emailAddress, isGeneratingDoc, clock, exportVars, crudVars,
                   searchVars>>

\* the Cancel button of the modal (lines 678-682)
CancelAddProduct ==
    /\ showAddProduct
    /\ showAddProduct' = FALSE
    /\ newProduct' = EmptyDraft
    /\ pending' = Overrides({"showAddProduct", "newProduct"})
    /\ draftLog' = EmptyLog
    /\ UNCHANGED <<pureVars, storeVars, selectedProductId, showExportModal, reading,
                   emailAddress, isGeneratingDoc, clock, exportVars, crudVars,
                   searchVars>>

\* setNewProduct(value) in an event handler: the value replaces whatever the
\* queued updates make, and the component renders before the next event
Replaced(value) ==
    /\ newProduct' = value
    /\ pending' = Overrides({"newProduct"})

\* the draft the queued updates make of the rendered one
Flushed == Shown("newProduct", newProduct)

ReadsUnchanged ==
    UNCHANGED <<pureVars, storeVars, selectedProductId, showAddProduct, showExportModal,
                emailAddress, isGeneratingDoc, clock, exportVars, crudVars,
                searchVars>>

DraftUnchanged == ReadsUnchanged /\ UNCHANGED reading

\* the inventory id and name inputs (lines 566, 576)
EditInventoryId(v) ==
    /\ showAddProduct
    /\ newProduct.inventoryId # v
    /\ Replaced([newProduct EXCEPT !.inventoryId = v])
    /\ UNCHANGED draftLog
    /\ DraftUnchanged

EditName(v) ==
    /\ showAddProduct
    /\ newProduct.name # v
    /\ Replaced([newProduct EXCEPT !.name = v])
    /\ UNCHANGED draftLog
    /\ DraftUnchanged

\* the description input (line 585)
EditDescription(v) ==
    /\ showAddProduct
    /\ newProduct.description # v
    /\ Replaced([newProduct EXCEPT !.description = v])
    /\ UNCHANGED draftLog
    /\ DraftUnchanged

\* the number a string of decimal digits denotes
RECURSIVE DigitsToNumber(_)
DigitsToNumber(text) ==
    IF text = <<>> THEN 0
    ELSE 10 * DigitsToNumber(SubSeq(text, 1, Len(text) - 1))
         + (CHOOSE d \in 0..9 : DigitChars[d + 1] = text[Len(text)])

\* parseFloat of the text of a number input: NaN, here Absent, when it is empty
parseFloat(text) == IF text = <<>> THEN Absent ELSE <<DigitsToNumber(text)>>

\* parseFloat(e.target.value) || 0
PriceOf(text) ==
    LET parsed == parseFloat(text)
    IN  IF parsed = Absent \/ parsed = <<0>> THEN 0 ELSE parsed[1]

\* the price input (line 596); the text differs from the value it showed
EditPrice(text) ==
    /\ showAddProduct
    /\ text # NumberToString(newProduct.price)
    /\ Replaced([newProduct EXCEPT !.price = PriceOf(text)])
    /\ UNCHANGED draftLog
    /\ DraftUnchanged

\* handleAddComponent with newComponent = name (the + button, Enter)
handleAddComponent(name) ==
    /\ showAddProduct
    /\ name # ""
    /\ Len(newProduct.components) < MaxDraftComponents
    /\ Replaced([newProduct EXCEPT !.components = Append(@, [name |-> name])])
    /\ draftLog' = [draftLog EXCEPT !.components = Append(@, [name |-> name])]
    /\ DraftUnchanged

\* s.filter((_, i) => i !== index), index counted from 0
RemoveAt(seq, index) ==
    [k \in 1..(Len(seq) - 1) |-> IF k <= index THEN seq[k] ELSE seq[k + 1]]

\* the log without the entry the user saw at index and removed
RemoveShown(seq, index) == IF index < Len(seq) THEN RemoveAt(seq, index) ELSE seq

\* the remove button of a draft component (lines 663-666)
RemoveDraftComponent(index) ==
    /\ showAddProduct
    /\ index \in 0..(Len(newProduct.components) - 1)
    /\ Replaced([newProduct EXCEPT !.components = RemoveAt(@, index)])
    /\ draftLog' = [draftLog EXCEPT !.components = RemoveShown(@, index)]
    /\ DraftUnchanged

\* handleRemovePhoto (lines 121-126): the updater is applied to the rendered
\* draft for the render of the click, and after the queued updates for the
\* render that shows them
handleRemovePhoto(index) ==
    /\ showAddProduct
    /\ index \in 0..(Len(newProduct.photos) - 1)
    /\ newProduct' = [newProduct EXCEPT !.photos = RemoveAt(@, index)]
    /\ pending' = IF "newProduct" \in DOMAIN pending
                  THEN Queue("newProduct" :>
                                [Flushed EXCEPT !.photos = RemoveShown(@, index)])
                  ELSE pending
    /\ draftLog' = [draftLog EXCEPT !.photos = RemoveShown(@, index)]
    /\ DraftUnchanged

\* a handler and a button that take any draft
DraftIsValidAlways(draft) == TRUE

\* handlePhotoUpload (lines 103-119, without the onload): the file input of
\* the modal changed and a FileReader starts on every chosen file
handlePhotoUpload(files) ==
    /\ showAddProduct
    /\ files # <<>>
    /\ Len(Flushed.photos) + Len(reading) + Len(files) <= MaxDraftPhotos
    /\ Len(draftLog.photos) + Len(reading) + Len(files) <= MaxInitDraft
    /\ reading' = reading \o files
    /\ UNCHANGED <<newProduct, pending, draftLog>>
    /\ ReadsUnchanged

\* reader.onload (lines 109-116) of the k-th file still being read, whether
\* the modal is open or not; not in a React event: the updater is queued and
\* the render comes later
PhotoRead(k) ==
    /\ k \in 1..Len(reading)
    /\ reading' = RemoveAt(reading, k - 1)
    /\ pending' = Queue("newProduct" :> [Flushed EXCEPT !.photos = Append(@, reading[k])])
    /\ draftLog' = [draftLog EXCEPT !.photos = Append(@, reading[k])]
    /\ UNCHANGED newProduct
    /\ ReadsUnchanged

\* the guard of handleAddProduct (line 57)
DraftIsValid(draft) == draft.name # <<>> /\ draft.inventoryId # <<>>

\* handleAddProduct up to its first await: the guard and the createProduct call
AddStart(a) ==
    /\ adds[a].pc = "idle"
    /\ a > 1 => adds[a - 1].pc # "idle"
    /\ showAddProduct
    /\ ~isProductMutating
    /\ DraftIsValid(newProduct)
    /\ adds' = [adds EXCEPT ![a] = [IdleAdd EXCEPT !.pc = "createProduct",
                                                   !.draft = newProduct]]
    /\ UNCHANGED <<pureVars, storeVars, uiVars, clock, exportVars, dels, updateVars>>

\* where handleAddProduct goes after the call numbered k of a stage settled
AddNextStep(draft, stage, k) ==
    IF stage = "createProduct" /\ Len(draft.components) > 0
        THEN [pc |-> "createComponent", k |-> 1]
    ELSE IF stage = "createComponent" /\ k < Len(draft.components)
        THEN [pc |-> "createComponent", k |-> k + 1]
    ELSE IF stage # "createPhoto" /\ Len(draft.photos) > 0
        THEN [pc |-> "createPhoto", k |-> 1]
    ELSE IF stage = "createPhoto" /\ k < Len(draft.photos)
        THEN [pc |-> "createPhoto", k |-> k + 1]
    ELSE [pc |-> "done", k |-> 0]

\* the next await of handleAddProduct, or its last three lines (85-87), whose
\* set calls are queued
AddContinue(a, e, stage) ==
    LET nxt == AddNextStep(e.draft, stage, e.k)
    IN  /\ adds' = [adds EXCEPT ![a] = [e EXCEPT !.pc = nxt.pc, !.k = nxt.k]]
        /\ IF nxt.pc = "done"
           THEN /\ pending' = Queue(("newProduct" :> EmptyDraft)
                                    @@ ("showAddProduct" :> FALSE)
                                    @@ ("selectedProductId" :> e.productId))
                /\ draftLog' = EmptyLog
                /\ UNCHANGED <<newProduct, reading, showAddProduct, selectedProductId>>
           ELSE UNCHANGED <<draftVars, showAddProduct, selectedProductId, pending>>

\* catch of handleAddProduct
AddFail(a) ==
    /\ adds' = [adds EXCEPT ![a].pc = "failed"]
    /\ UNCHANGED <<storeVars, draftVars, showAddProduct, selectedProductId, pending>>

\* the record createComponent is given (lines 69-74)
NewComponentRecord(id, productId, comp) ==
    [id |-> id, productId |-> productId, name |-> comp.name, status |-> "untested",
     notes |-> "", testedAt |-> Absent]

\* the record createPhoto is given (lines 79-82)
NewPhotoRecord(id, productId, url) == [id |-> id, productId |-> productId, url |-> url]

\* createProduct settles
AddProductCreated(a, ok) ==
    /\ adds[a].pc = "createProduct"
    /\ IF ok
       THEN LET id == ProductIdNames[nextProductId]
                product == [id |-> id, inventoryId |-> adds[a].draft.inventoryId,
                            name |-> adds[a].draft.name,
                            description |-> adds[a].draft.description,
                            price |-> adds[a].draft.price]
                e  == [adds[a] EXCEPT !.productId = id,
                                      !.created = Append(@, [type |-> "Product",
                                                             record |-> product])]
            IN  /\ products' = products \cup {product}
                /\ nextProductId' = nextProductId + 1
                /\ UNCHANGED <<comps, photos, nextPhotoId>>
                /\ AddContinue(a, e, "createProduct")
       ELSE AddFail(a)
    /\ UNCHANGED <<pureVars, showExportModal, emailAddress, isGeneratingDoc, clock,
                   exportVars, dels, updateVars,
                   searchVars>>

\* a createComponent of the loop of lines 68-75 settles
AddComponentCreated(a, ok) ==
    /\ adds[a].pc = "createComponent"
    /\ IF ok
       THEN LET component == NewComponentRecord(Len(comps) + 1, adds[a].productId,
                                                   adds[a].draft.components[adds[a].k])
                e == [adds[a] EXCEPT !.created = Append(@, [type |-> "ComponentTest",
                                                            record |-> component])]
            IN  /\ comps' = Append(comps, component)
                /\ UNCHANGED <<products, photos, nextProductId, nextPhotoId>>
                /\ AddContinue(a, e, "createComponent")
       ELSE AddFail(a)
    /\ UNCHANGED <<pureVars, showExportModal, emailAddress, isGeneratingDoc, clock,
                   exportVars, dels, updateVars,
                   searchVars>>

\* a createPhoto of the loop of lines 78-83 settles
AddPhotoCreated(a, ok) ==
    /\ adds[a].pc = "createPhoto"
    /\ IF ok
       THEN LET photo == NewPhotoRecord(nextPhotoId, adds[a].productId,
                                        adds[a].draft.photos[adds[a].k])
                e == [adds[a] EXCEPT !.created = Append(@, [type |-> "ProductPhoto",
                                                            record |-> photo])]
            IN  /\ photos' = photos \cup {photo}
                /\ nextPhotoId' = nextPhotoId + 1
                /\ UNCHANGED <<products, comps, nextProductId>>
                /\ AddContinue(a, e, "createPhoto")
       ELSE AddFail(a)
    /\ UNCHANGED <<pureVars, showExportModal, emailAddress, isGeneratingDoc, clock,
                   exportVars, dels, updateVars,
                   searchVars>>

---------------------------------------------------------------------------
(* handleDeleteProduct *)

\* a handler that walks none of the records a query returned
IdsNone(seq) == <<>>

\* the ids of the records a query returned, in order
Ids(seq) == [k \in 1..Len(seq) |-> seq[k].id]

\* the delete button of a product card, up to the queryComponents call
DelStart(d, id) ==
    /\ dels[d].pc = "idle"
    /\ d > 1 => dels[d - 1].pc # "idle"
    /\ id \in ProductIds
    /\ ~isProductMutating
    /\ dels' = [dels EXCEPT ![d] = [IdleDel EXCEPT !.pc = "queryComponents", !.id = id,
                                                   !.selected = selectedProductId]]
    /\ UNCHANGED <<pureVars, storeVars, uiVars, clock, exportVars, adds, updateVars>>

\* catch of handleDeleteProduct
DelFail(d) ==
    /\ dels' = [dels EXCEPT ![d].pc = "failed"]
    /\ UNCHANGED <<storeVars, pending>>

\* the fields the soft delete sends (line 152)
DetachPatch == [productId |-> NoProduct]

\* the store's ComponentTest records after updateComponent(c, DetachPatch)
Detached(store, c) == [store EXCEPT ![c].productId = DetachPatch.productId]

\* queryComponents settles with the components of the product as they are now
DelComponentsQueried(d, ok) ==
    /\ dels[d].pc = "queryComponents"
    /\ IF ok
       THEN LET found == Ids(ComponentsOf(dels[d].id))
            IN  dels' = [dels EXCEPT ![d].comps = found, ![d].k = 1,
                                     ![d].pc = IF found = <<>> THEN "queryPhotos"
                                               ELSE "updateComponent"]
       ELSE dels' = [dels EXCEPT ![d].pc = "failed"]
    /\ UNCHANGED <<pureVars, storeVars, uiVars, clock, exportVars, adds, updateVars>>

\* an updateComponent of the loop of lines 151-153 settles
DelComponentDetached(d, ok) ==
    /\ dels[d].pc = "updateComponent"
    /\ IF ok
       THEN LET e == dels[d]
            IN  /\ comps' = Detached(comps, e.comps[e.k])
                /\ dels' = [dels EXCEPT ![d].k = IF e.k < Len(e.comps) THEN e.k + 1 ELSE 1,
                                        ![d].pc = IF e.k < Len(e.comps)
                                                  THEN "updateComponent"
                                                  ELSE "queryPhotos"]
                /\ UNCHANGED <<products, photos, nextProductId, nextPhotoId, pending>>
       ELSE DelFail(d)
    /\ UNCHANGED <<pureVars, selectedProductId, showAddProduct, showExportModal,
                   draftVars, emailAddress,
                   isGeneratingDoc, clock, exportVars, adds, updateVars,
                   searchVars>>

\* queryPhotos settles with the photos of the product as they are now
DelPhotosQueried(d, ok) ==
    /\ dels[d].pc = "queryPhotos"
    /\ IF ok
       THEN LET found == Ids(PhotosOf(dels[d].id))
            IN  dels' = [dels EXCEPT ![d].photos = found, ![d].k = 1,
                                     ![d].pc = IF found = <<>> THEN "deleteProduct"
                                               ELSE "deletePhoto"]
       ELSE dels' = [dels EXCEPT ![d].pc = "failed"]
    /\ UNCHANGED <<pureVars, storeVars, uiVars, clock, exportVars, adds, updateVars>>

\* a deletePhoto of the loop of lines 157-159 settles
DelPhotoDeleted(d, ok) ==
    /\ dels[d].pc = "deletePhoto"
    /\ IF ok
       THEN LET e == dels[d]
            IN  /\ photos' = {r \in photos : r.id # e.photos[e.k]}
                /\ dels' = [dels EXCEPT ![d].k = IF e.k < Len(e.photos) THEN e.k + 1 ELSE 1,
                                        ![d].pc = IF e.k < Len(e.photos)
                                                  THEN "deletePhoto"
                                                  ELSE "deleteProduct"]
                /\ UNCHANGED <<products, comps, nextProductId, nextPhotoId, pending>>
       ELSE DelFail(d)
    /\ UNCHANGED <<pureVars, selectedProductId, showAddProduct, showExportModal,
                   draftVars, emailAddress,
                   isGeneratingDoc, clock, exportVars, adds, updateVars,
                   searchVars>>

\* deleteProduct settles; then the selection test of lines 164-166, on the
\* selectedProductId of the render the handler was created in, whose
\* setSelectedProductId(null) is queued.  The card of the product (line 341)
\* stays on the page until the next render.
DelProductDeleted(d, ok) ==
    /\ dels[d].pc = "deleteProduct"
    /\ IF ok
       THEN LET e == dels[d]
            IN  /\ products' = {r \in products : r.id # e.id}
                /\ dels' = [dels EXCEPT ![d].pc = "done"]
                /\ pending' =
                     Queue(IF e.selected = e.id
                           THEN ("selectedProductId" :> Null)
                                @@ ("deleted" :> (Shown("deleted", {}) \cup {e.id}))
                           ELSE "deleted" :> (Shown("deleted", {}) \cup {e.id}))
                /\ UNCHANGED <<comps, photos, nextProductId, nextPhotoId>>
       ELSE DelFail(d)
    /\ UNCHANGED <<pureVars, selectedProductId, showAddProduct, showExportModal,
                   draftVars, emailAddress,
                   isGeneratingDoc, clock, exportVars, adds, updateVars,
                   searchVars>>

---------------------------------------------------------------------------
(* Search by inventory id *)

SearchChanges ==
    UNCHANGED <<pureVars, storeVars, showAddProduct, showExportModal, draftVars,
                emailAddress, isGeneratingDoc, clock, exportVars, crudVars>>

\* the Search by ID button of the header (line 308)
OpenInventorySearch ==
    /\ showInventorySearch' = TRUE
    /\ pending' = Overrides({"showInventorySearch"})
    /\ UNCHANGED <<selectedProductId, inventorySearchId, searches>>
    /\ SearchChanges

\* the Cancel button of the search modal (lines 533-536)
CancelInventorySearch ==
    /\ showInventorySearch
    /\ showInventorySearch' = FALSE
    /\ inventorySearchId' = <<>>
    /\ pending' = Overrides({"showInventorySearch", "inventorySearchId"})
    /\ UNCHANGED <<selectedProductId, searches>>
    /\ SearchChanges

\* typing in the search modal's input (line 527)
TypeInventorySearchId(v) ==
    /\ showInventorySearch
    /\ inventorySearchId # v
    /\ inventorySearchId' = v
    /\ pending' = Overrides({"inventorySearchId"})
    /\ UNCHANGED <<selectedProductId, showInventorySearch, searches>>
    /\ SearchChanges

\* handleSearchByInventoryId up to its await: the guard and the
\* queryProducts call (Search button or Enter)
handleSearchByInventoryId ==
    /\ showInventorySearch
    /\ inventorySearchId # <<>>
    /\ Len(searches) < MaxSearches
    /\ searches' = Append(searches, inventorySearchId)
    /\ UNCHANGED <<selectedProductId, showInventorySearch, inventorySearchId, pending>>
    /\ SearchChanges

\* queryProducts settles with the products of that inventory id as they are
\* now: the set calls that select the first of them and close and clear the
\* modal are queued; with none an alert is shown; a rejection is logged
SearchSettled(k, ok) ==
    /\ k \in 1..Len(searches)
    /\ searches' = RemoveAt(searches, k - 1)
    /\ LET results == {r \in products : r.inventoryId = searches[k]}
       IN  IF ok /\ results # {}
           THEN \E first \in results :
                    pending' = Queue(("selectedProductId" :> first.id)
                                     @@ ("showInventorySearch" :> FALSE)
                                     @@ ("inventorySearchId" :> <<>>))
           ELSE UNCHANGED pending
    /\ UNCHANGED <<selectedProductId, showInventorySearch, inventorySearchId>>
    /\ SearchChanges

---------------------------------------------------------------------------
(* The specification of the store handlers: a draft is typed, added,      *)
(* tested and deleted while time passes. Cancelling a draft is part of     *)
(* SpecAdd and SpecDraft.                                                 *)

Init ==
    /\ PureIdle
    /\ StoreEmpty
    /\ UiIdle
    /\ ExportIdle
    /\ CrudIdle
    /\ clock = 0

Next ==
    \/ Tick
    \/ OpenAddProduct
    \/ \E v \in InventoryInputs : EditInventoryId(v)
    \/ \E v \in NameInputs : EditName(v)
    \/ \E name \in ComponentNameInputs : handleAddComponent(name)
    \/ \E index \in 0..(MaxDraftComponents - 1) : RemoveDraftComponent(index)
    \/ \E url \in PhotoInputs : handlePhotoUpload(<<url>>)
    \/ \E k \in 1..MaxDraftPhotos : PhotoRead(k)
    \/ Render
    \/ \E index \in 0..(MaxDraftPhotos - 1) : handleRemovePhoto(index)
    \/ \E a \in AddIds : AddStart(a)
    \/ \E a \in AddIds, ok \in BOOLEAN : AddProductCreated(a, ok)
    \/ \E a \in AddIds, ok \in BOOLEAN : AddComponentCreated(a, ok)
    \/ \E a \in AddIds, ok \in BOOLEAN : AddPhotoCreated(a, ok)
    \/ \E p \in ProductIds \cup Shown("deleted", {}) : SelectProduct(p)
    \/ \E c \in ComponentIds, st \in PressedStatuses :
           handleUpdateComponentStatus(c, st)
    \/ \E c \in ComponentIds, n \in NoteInputs :
           handleUpdateComponentNotes(c, n)
    \/ \E ok \in BOOLEAN : UpdateComponentSettled(ok)
    \/ \E d \in DelIds, id \in ProductIds : DelStart(d, id)
    \/ \E d \in DelIds, ok \in BOOLEAN : DelComponentsQueried(d, ok)
    \/ \E d \in DelIds, ok \in BOOLEAN : DelComponentDetached(d, ok)
    \/ \E d \in DelIds, ok \in BOOLEAN : DelPhotosQueried(d, ok)
    \/ \E d \in DelIds, ok \in BOOLEAN : DelPhotoDeleted(d, ok)
    \/ \E d \in DelIds, ok \in BOOLEAN : DelProductDeleted(d, ok)

Spec == Init /\ [][Next]_vars

---------------------------------------------------------------------------
(* Selecting, searching and deleting on a store of one product *)

\* what is typed in the search modal: the inventory id of the stored product
\* and one no product has
SearchInputs == {<<"I", "1">>, <<"I">>}

NextSearch ==
    \/ \E p \in ProductIds \cup Shown("deleted", {}) : SelectProduct(p)
    \/ OpenInventorySearch
    \/ CancelInventorySearch
    \/ \E v \in SearchInputs : TypeInventorySearchId(v)
    \/ handleSearchByInventoryId
    \/ \E k \in 1..MaxSearches, ok \in BOOLEAN : SearchSettled(k, ok)
    \/ \E d \in DelIds, id \in ProductIds : DelStart(d, id)
    \/ \E d \in DelIds, ok \in BOOLEAN : DelComponentsQueried(d, ok)
    \/ \E d \in DelIds, ok \in BOOLEAN : DelComponentDetached(d, ok)
    \/ \E d \in DelIds, ok \in BOOLEAN : DelPhotosQueried(d, ok)
    \/ \E d \in DelIds, ok \in BOOLEAN : DelPhotoDeleted(d, ok)
    \/ \E d \in DelIds, ok \in BOOLEAN : DelProductDeleted(d, ok)
    \/ Render

SpecSearch == InitExport /\ [][NextSearch]_vars

---------------------------------------------------------------------------
(* Adding a product on an empty store and exporting its report *)

\* a text input emptied again
Cleared == <<>>

NextAddExport ==
    \/ Tick
    \/ OpenAddProduct
    \/ CancelAddProduct
    \/ \E v \in InventoryInputs \cup {Cleared} : EditInventoryId(v)
    \/ \E v \in NameInputs \cup {Cleared} : EditName(v)
    \/ \E a \in AddIds : AddStart(a)
    \/ \E a \in AddIds, ok \in BOOLEAN : AddProductCreated(a, ok)
    \/ \E p \in ProductIds \cup Shown("deleted", {}) : SelectProduct(p)
    \/ OpenExportModal
    \/ \E a \in EmailInputs : TypeEmail(a)
    \/ \E i \in ExportIds, kind \in {"download", "email"} : ExportStart(i, kind)
    \/ Render
    \/ \E i \in ExportIds, rendered \in BOOLEAN : ExportCaptureDone(i, rendered)
    \/ \E i \in ExportIds, ok \in BOOLEAN : ExportBuildDone(i, ok)
    \/ \E i \in ExportIds, ok \in BOOLEAN : ExportPackDone(i, ok)

SpecAddExport == Init /\ [][NextAddExport]_vars

---------------------------------------------------------------------------
(* Submitting a draft of several components and photos *)

ComponentNameChoices == {"screen", "lid"}
PhotoChoices         == {"data:front", "data:back"}

\* the drafts a user has typed when the modal is about to be submitted
TypedDrafts ==
    {[inventoryId |-> i, name |-> n, description |-> d, price |-> PriceOf(t),
      components |-> cs, photos |-> ps] :
        i \in InventoryInputs, n \in NameInputs,
        d \in DescriptionInputs \cup {""}, t \in PriceTexts,
        cs \in SeqsUpTo({[name |-> x] : x \in ComponentNameChoices}, MaxInitDraft),
        ps \in SeqsUpTo(PhotoChoices, MaxInitDraft)}

InitAdd ==
    /\ PureIdle
    /\ StoreEmpty
    /\ ExportIdle
    /\ CrudIdle
    /\ selectedProductId = Null
    /\ showAddProduct = TRUE
    /\ showExportModal = FALSE
    /\ newProduct \in TypedDrafts
    /\ pending = NoPending
    /\ draftLog = [photos |-> newProduct.photos, components |-> newProduct.components]
    /\ reading = <<>>
    /\ emailAddress = ""
    /\ isGeneratingDoc = FALSE
    /\ SearchIdle
    /\ clock = 0

NextAdd ==
    \/ Tick
    \/ OpenAddProduct
    \/ CancelAddProduct
    \/ \E v \in NameInputs \cup {Cleared} : EditName(v)
    \/ \E index \in 0..(MaxInitDraft - 1) : RemoveDraftComponent(index)
    \/ \E index \in 0..(MaxInitDraft - 1) : handleRemovePhoto(index)
    \/ \E a \in AddIds : AddStart(a)
    \/ \E a \in AddIds, ok \in BOOLEAN : AddProductCreated(a, ok)
    \/ \E a \in AddIds, ok \in BOOLEAN : AddComponentCreated(a, ok)
    \/ \E a \in AddIds, ok \in BOOLEAN : AddPhotoCreated(a, ok)
    \/ \E p \in ProductIds \cup Shown("deleted", {}) : SelectProduct(p)
    \/ \E c \in ComponentIds, st \in ExportStatusInputs :
           handleUpdateComponentStatus(c, st)
    \/ \E ok \in BOOLEAN : UpdateComponentSettled(ok)
    \/ Render

SpecAdd == InitAdd /\ [][NextAdd]_vars

---------------------------------------------------------------------------
(* Editing the draft while photo reads complete *)

NextDraft ==
    \/ OpenAddProduct
    \/ CancelAddProduct
    \/ \E v \in InventoryInputs \cup {Cleared} : EditInventoryId(v)
    \/ \E v \in NameInputs \cup {Cleared} : EditName(v)
    \/ \E v \in DescriptionInputs \cup {""} : EditDescription(v)
    \/ \E text \in PriceTexts : EditPrice(text)
    \/ \E name \in ComponentNameInputs \cup {""} : handleAddComponent(name)
    \/ \E index \in 0..(MaxInitDraft - 1) : RemoveDraftComponent(index)
    \/ \E files \in SeqsUpTo(PhotoChoices, MaxDraftPhotos) : handlePhotoUpload(files)
    \/ \E k \in 1..MaxDraftPhotos : PhotoRead(k)
    \/ Render
    \/ \E index \in 0..(MaxInitDraft - 1) : handleRemovePhoto(index)

SpecDraft == InitAdd /\ [][NextDraft]_vars

---------------------------------------------------------------------------
(* The pure functions on drawn inputs *)

Names == SeqsUpTo(NameChars, MaxNameLen) \ {<<>>}

TimeInputs == {0, 7, 10, 99, 100, 120}

InitFileName ==
    /\ pName \in Names
    /\ pNow \in TimeInputs
    /\ pFile = NoFile
    /\ pIcons = [s \in StatusInputs |-> {}]
    /\ StoreEmpty /\ UiIdle /\ ExportIdle /\ CrudIdle
    /\ clock = 0

\* a.download of line 216 for a product called pName when Date.now() is pNow
DeriveFileName ==
    /\ pFile = NoFile
    /\ pFile' = DownloadFileName(pName, pNow)
    /\ UNCHANGED <<pName, pNow, pIcons, storeVars, uiVars, clock, exportVars, crudVars>>

SpecFileName == InitFileName /\ [][DeriveFileName]_vars

InitIcon ==
    /\ PureIdle
    /\ StoreEmpty /\ UiIdle /\ ExportIdle /\ CrudIdle
    /\ clock = 0

\* one rendering of the marker of a status
RenderStatusIcon(status) ==
    /\ pIcons' = [pIcons EXCEPT ![status] = @ \cup {getStatusIcon(status)}]
    /\ UNCHANGED <<pName, pNow, pFile, storeVars, uiVars, clock, exportVars, crudVars>>

NextIcon == \E status \in StatusInputs : RenderStatusIcon(status)

SpecIcon == InitIcon /\ [][NextIcon]_vars

---------------------------------------------------------------------------
(* Claims about the pure functions *)

\* the positions of name that survive: a character that is not whitespace,
\* and the first character of each maximal run of whitespace
KeptPositions(name) ==
    {k \in 1..Len(name) : ~IsWhitespace(name[k]) \/ k = 1 \/ ~IsWhitespace(name[k - 1])}

\* name with each maximal run of whitespace replaced by one '_'
Collapsed(name) ==
    LET kept == KeptPositions(name)
    IN  [j \in 1..Cardinality(kept) |->
            LET k == CHOOSE k \in kept : Cardinality({m \in kept : m <= k}) = j
            IN  IF IsWhitespace(name[k]) THEN "_" ELSE name[k]]

IsDigit(c) == \E d \in 1..10 : DigitChars[d] = c
DigitValue(c) == (CHOOSE d \in 1..10 : DigitChars[d] = c) - 1

RECURSIVE ParseDecimal(_)
ParseDecimal(t) ==
    IF t = <<>> THEN 0
    ELSE 10 * ParseDecimal(SubSeq(t, 1, Len(t) - 1)) + DigitValue(t[Len(t)])

\* C1: the download file name is the product name with each maximal run of
\* whitespace replaced by exactly one '_', then '_test_report_', then the
\* decimal digits of the timestamp, then '.docx'; it holds no whitespace, and
\* (being this) is determined by the name and the timestamp.
C1_DownloadFileName ==
    pFile # NoFile =>
        LET base   == Collapsed(pName)
            n      == Len(base)
            tokLen == Len(pFile) - n - Len(TestReportTs) - Len(DocxExt)
            token  == SubSeq(pFile, n + Len(TestReportTs) + 1,
                             n + Len(TestReportTs) + tokLen)
        IN  /\ tokLen >= 1
            /\ SubSeq(pFile, 1, n) = base
            /\ SubSeq(pFile, n + 1, n + Len(TestReportTs)) = TestReportTs
            /\ \A k \in 1..tokLen : IsDigit(token[k])
            /\ tokLen > 1 => token[1] # "0"
            /\ ParseDecimal(token) = pNow
            /\ SubSeq(pFile, Len(pFile) - Len(DocxExt) + 1, Len(pFile)) = DocxExt
            /\ \A k \in 1..Len(pFile) : ~IsWhitespace(pFile[k])

\* the file name of "W  P" (two spaces) exported at time 120 has been derived
C1_Witness ==
    /\ pName = WidgetPro
    /\ pNow = 120
    /\ pFile = <<"W", "_", "P">> \o TestReportTs \o <<"1", "2", "0">> \o DocxExt

Markers == {CheckCircle, XCircle, Circle}

\* C10: the markers of 'working', 'not-working' and 'untested' are pairwise
\* distinct, a status gets the same marker at every rendering, and every
\* other status string gets a marker, the one 'untested' gets.
C10_StatusMarkers ==
    /\ \A s \in StatusInputs : pIcons[s] \subseteq Markers /\ Cardinality(pIcons[s]) <= 1
    /\ \A s, t \in Statuses : s # t => pIcons[s] \cap pIcons[t] = {}
    /\ \A s \in StatusInputs \ Statuses :
           \A m \in pIcons[s], u \in pIcons["untested"] : m = u

\* every status string drawn has been rendered
C10_Witness == \A s \in StatusInputs : pIcons[s] # {}

---------------------------------------------------------------------------
(* Claims about the export handlers *)

Started == {i \in ExportIds : exports[i].pc # "idle"}

Captures(i)    == CallsOf(exports[i], "capture")
Builds(i)      == CallsOf(exports[i], "build")
Saves(i)       == CallsOf(exports[i], "save")
ComposersOf(i) == CallsOf(exports[i], "composer")
Alerts(i)      == CallsOf(exports[i], "alert")

\* position of the first call of a type among an invocation's calls, 0 if none
FirstCall(i, type) ==
    LET at == {k \in 1..Len(exports[i].calls) : exports[i].calls[k].type = type}
    IN  IF at = {} THEN 0 ELSE CHOOSE k \in at : \A m \in at : k <= m

\* C2: any two email exports of a session are saved under different file
\* names, two exports of the same product included.
C2_EmailFileNamesDistinct ==
    \A i, j \in ExportIds :
        (i # j /\ exports[i].kind = "email" /\ exports[j].kind = "email") =>
            \A s \in 1..Len(Saves(i)), t \in 1..Len(Saves(j)) :
                Saves(i)[s].filename # Saves(j)[t].filename

\* what the capture call of invocation i returned to the handler
Returned(i) ==
    IF Captures(i)[1].outcome = "image" THEN <<[capturedBy |-> i]>> ELSE Absent

\* C3: an export invocation calls captureScreenshot at most once; once the
\* capture has returned, exactly one generateWordDocument call has been made
\* by that invocation and its screenshot argument is the value returned; no
\* builder call of another invocation is passed that capture's image.
C3_CaptureThreadedOnce ==
    \A i \in Started :
        /\ Len(Captures(i)) = 1
        /\ Len(Builds(i)) <= 1
        /\ Captures(i)[1].outcome = "pending" => Builds(i) = <<>>
        /\ Captures(i)[1].outcome # "pending" =>
              /\ Len(Builds(i)) = 1
              /\ FirstCall(i, "capture") < FirstCall(i, "build")
              /\ Builds(i)[1].args.screenshot = Returned(i)
        /\ \A j \in Started \ {i} : \A b \in 1..Len(Builds(j)) :
              Builds(j)[b].args.screenshot # <<[capturedBy |-> i]>>

\* two invocations overlap, each holding the image of its own capture and
\* each having called the builder
C3_Witness ==
    /\ exports[1].pc = "build" /\ exports[2].pc = "build"
    /\ exports[1].screenshot = <<[capturedBy |-> 1]>>
    /\ exports[2].screenshot = <<[capturedBy |-> 2]>>

\* the data of the render in which the export button is pressed
RenderedData ==
    [product |-> selectedProduct[1], components |-> components, photos |-> selectedPhotos]

ClosedOver(e) == [product |-> e.product, components |-> e.components, photos |-> e.photos]

\* every file saved holds the document this invocation built, from this
\* invocation's builder call, out of the data the invocation started with
SavedIsBuiltHere ==
    \A i \in Started : \A s \in 1..Len(Saves(i)) :
        LET doc == Saves(i)[s].blob.doc
        IN  /\ doc.builtBy = i
            /\ Len(Builds(i)) = 1
            /\ FirstCall(i, "build") < FirstCall(i, "save")
            /\ [product |-> doc.product, components |-> doc.components,
                photos |-> doc.photos, screenshot |-> doc.screenshot] = Builds(i)[1].args
            /\ [product |-> doc.product, components |-> doc.components,
                photos |-> doc.photos] = ClosedOver(exports[i])

\* an export that starts takes the store's data as they are then
StartsFromCurrentData ==
    \A i \in ExportIds :
        (exports[i].pc = "idle" /\ exports'[i].pc # "idle") =>
            ClosedOver(exports'[i]) = RenderedData

\* C4: every file an export saves was built by a capture-and-build inside that
\* same invocation, never by another export, and from the data as they were
\* when the invocation started: a status changed between two exports is in
\* the second export's file.
C4_NoStaleArtifact == []SavedIsBuiltHere /\ [][StartsFromCurrentData]_vars

\* two exports delivered, the component marked working in between: the first
\* file shows it untested, the second working
C4_Witness ==
    /\ Saves(1) # <<>> /\ Saves(2) # <<>>
    /\ Saves(1)[1].blob.doc.components[1].status = "untested"
    /\ Saves(2)[1].blob.doc.components[1].status = "working"

Failed(i) == exports[i].built = "failed" \/ exports[i].packed = "failed"

\* C5: when generateWordDocument or Packer.toBlob fails, the invocation saves
\* no file and opens no composer, and shows the retry message; a file is
\* saved only after the build and the packing both succeeded.
C5_NoPartialArtifact ==
    \A i \in Started :
        /\ Failed(i) =>
              /\ Saves(i) = <<>>
              /\ ComposersOf(i) = <<>>
              /\ exports[i].pc = "done"
              /\ Len(Alerts(i)) = 1
              /\ Alerts(i)[1].message \in
                    {"Failed to generate document. Please try again.",
                     "Failed to prepare email. Please try again."}
        /\ (Saves(i) # <<>> \/ ComposersOf(i) # <<>>) =>
              exports[i].built = "ok" /\ exports[i].packed = "ok"

\* a download whose build failed and an email export whose packing failed
C5_Witness ==
    /\ exports[1].kind = "download" /\ exports[1].built = "failed"
    /\ exports[2].kind = "email" /\ exports[2].packed = "failed"

CaptureFailed(i) == Captures(i)[1].outcome \in {"refMissing", "rendererFailed"}

\* C6: a capture that finds no panel or whose renderer fails returns absent
\* and throws nothing: the builder is called with no screenshot, the file is
\* saved when build and packing succeed, and an alert is shown only for a
\* failed build or packing.
C6_CaptureFailureIsNoScreenshot ==
    \A i \in Started :
        /\ CaptureFailed(i) =>
              /\ exports[i].screenshot = Absent
              /\ Len(Builds(i)) = 1
              /\ Builds(i)[1].args.screenshot = Absent
              /\ (exports[i].built = "ok" /\ exports[i].packed = "ok") =>
                    /\ Len(Saves(i)) = 1
                    /\ Saves(i)[1].blob.doc.screenshot = Absent
        /\ Alerts(i) # <<>> => Failed(i)
        /\ captureScreenshot("refMissing", [capturedBy |-> i])
               = [threw |-> FALSE, value |-> Absent]
        /\ captureScreenshot("rendererFailed", [capturedBy |-> i])
               = [threw |-> FALSE, value |-> Absent]

\* a download and an email export, each saved with no alert after the
\* renderer failed
C6_Witness ==
    /\ exports[1].kind = "download" /\ exports[2].kind = "email"
    /\ \A i \in {1, 2} : /\ Saves(i) # <<>>
                         /\ Alerts(i) = <<>>
                         /\ Captures(i)[1].outcome = "rendererFailed"

\* C7: the email path opens the composer at most once per invocation and
\* only after that invocation's file save; the composer is addressed to the
\* recipient entered, its subject names the product and its inventory id,
\* and its body ends with the note that the downloaded document must be
\* attached by hand.  The download path opens none.
C7_ComposerAfterSave ==
    \A i \in Started :
        /\ Len(ComposersOf(i)) <= 1
        /\ exports[i].kind = "download" => ComposersOf(i) = <<>>
        /\ ComposersOf(i) # <<>> =>
              LET url == ComposersOf(i)[1].url
                  p   == exports[i].product
                  body == decodeURIComponent(url.body)
              IN  /\ Len(Saves(i)) = 1
                  /\ FirstCall(i, "save") < FirstCall(i, "composer")
                  /\ url.to = exports[i].email
                  /\ url.to \in EmailInputs
                  /\ decodeURIComponent(url.subject) =
                        <<"Product Testing Report: ">> \o p.name \o <<" (ID: ">>
                            \o p.inventoryId \o <<")">>
                  /\ body[Len(body)] = "\n\nNote: The Word document has been downloaded to your computer. Please attach it to this email."
                  /\ \A k \in 1..Len(url.subject) : url.subject[k] \notin {" ", "\t"}

\* an email export has saved its file and opened the composer
C7_Witness ==
    \E i \in Started :
        /\ exports[i].kind = "email"
        /\ ComposersOf(i) # <<>>
        /\ ComposersOf(i)[1].url.to = "qa@lab.io"

---------------------------------------------------------------------------
(* Claims about the store handlers *)

Deleted == {d \in DelIds : dels[d].pc = "done"}

\* C8: once handleDeleteProduct(id) has completed without error, no
\* ComponentTest references id any more (each one that did is still in the
\* store, detached), no ProductPhoto references id, and the Product id is
\* gone.
C8_DeleteDetaches ==
    \A d \in Deleted :
        LET id == dels[d].id
        IN  /\ id \notin ProductIds
            /\ \A r \in photos : r.productId # id
            /\ \A c \in ComponentIds : comps[c].productId # id

\* C9 as claimed: a last-tested time is present only on a component whose
\* status some update has changed.
C9_AbsentUntilStatusChange ==
    \A c \in ComponentIds : comps[c].testedAt # Absent => c \in statusLog.changed

\* C9: a component's last-tested time is absent exactly until the first
\* successful handleUpdateComponentStatus on it, whether or not that call
\* changes the status: absent when handleAddProduct creates the record, absent
\* under note edits and under detachment, present after the update.
C9_AbsentUntilStatusUpdate ==
    /\ \A c \in ComponentIds : comps[c].testedAt # Absent <=> c \in statusLog.updated
    /\ statusLog.changed \subseteq statusLog.updated

\* a component with notes, detached by a product deletion, re-marked untested:
\* its status never changed and it has a last-tested time
C9_Witness ==
    \E c \in ComponentIds :
        /\ c \in statusLog.updated /\ c \notin statusLog.changed
        /\ comps[c].testedAt # Absent
        /\ comps[c].status = "untested"
        /\ comps[c].notes = "loose"
        /\ comps[c].productId = NoProduct

---------------------------------------------------------------------------
(* Claims about adding products *)

HasRequiredFields(product) == product.name # <<>> /\ product.inventoryId # <<>>

\* C11: handleAddProduct goes past its guard only with a draft that has a name
\* and an inventory id and the store holds no record otherwise, so every Product
\* in the store has a non-empty name and a non-empty inventory id, and every
\* generateWordDocument call is given a product that has both.
C11_RequiredFields ==
    /\ \A a \in AddIds : adds[a].pc # "idle" => HasRequiredFields(adds[a].draft)
    /\ (\A a \in AddIds : adds[a].pc = "idle") =>
           (products = {} /\ comps = <<>> /\ photos = {})
    /\ \A r \in products : HasRequiredFields(r)
    /\ \A i \in ExportIds :
           /\ exports[i].pc # "idle" => exports[i].product.id \in ProductIds
           /\ \A k \in 1..Len(Builds(i)) : HasRequiredFields(Builds(i)[k].args.product)

\* the draft has lost its name again, the add button does nothing, and the
\* report of a product added before has been built
C11_Witness ==
    /\ showAddProduct
    /\ newProduct.name = Cleared /\ newProduct.inventoryId # Cleared
    /\ \E a \in AddIds, i \in ExportIds :
           /\ adds[a].pc = "done"
           /\ Builds(i) # <<>>
           /\ Builds(i)[1].args.product.id = adds[a].productId

Completed == {a \in AddIds : adds[a].pc = "done"}

\* what a completed handleAddProduct must have created, in call order, the
\* component and photo ids left open
ExpectedCreated(e) ==
    <<[type |-> "Product",
       record |-> [id |-> e.productId, inventoryId |-> e.draft.inventoryId,
                   name |-> e.draft.name, description |-> e.draft.description,
                   price |-> e.draft.price]]>>
    \o [k \in 1..Len(e.draft.components) |->
           [type |-> "ComponentTest",
            record |-> [productId |-> e.productId, name |-> e.draft.components[k].name,
                        status |-> "untested", notes |-> "", testedAt |-> Absent]]]
    \o [k \in 1..Len(e.draft.photos) |->
           [type |-> "ProductPhoto",
            record |-> [productId |-> e.productId, url |-> e.draft.photos[k]]]]

\* a created record without the id the store gave it
WithoutId(c) ==
    IF c.type = "Product" THEN c
    ELSE [type |-> c.type,
          record |-> [f \in (DOMAIN c.record) \ {"id"} |-> c.record[f]]]

CreatedAsDrafted ==
    \A a \in Completed :
        LET e == adds[a]
        IN  /\ [k \in 1..Len(e.created) |-> WithoutId(e.created[k])] = ExpectedCreated(e)
            /\ \A k, m \in 1..Len(e.created) :
                   (k # m /\ e.created[k].type = e.created[m].type) =>
                       e.created[k].record.id # e.created[m].record.id

\* the last step of a completed add queues the reset of the draft, the close
\* of the modal and the selection of the new product
CompletionQueuesReset ==
    \A a \in AddIds :
        (adds[a].pc # "done" /\ adds'[a].pc = "done") =>
            /\ {"newProduct", "showAddProduct", "selectedProductId"} \subseteq DOMAIN pending'
            /\ pending'["newProduct"] = EmptyDraft
            /\ pending'["showAddProduct"] = FALSE
            /\ pending'["selectedProductId"] = adds'[a].productId

\* the step that closes the modal while the close queued by a completed add
\* is waiting shows the empty draft
CompletionShown ==
    (showAddProduct /\ "showAddProduct" \in DOMAIN pending /\ ~showAddProduct') =>
        newProduct' = EmptyDraft

\* C12: a handleAddProduct invocation that completes without error has created
\* exactly one Product, then one ComponentTest per component of the draft it
\* was started with (draft order, owned by the new product, untested, no
\* notes, no last-tested time), then one ProductPhoto per photo of that draft
\* (draft order, owned by the new product); its last step asks for the empty
\* draft, the closed add-product modal and the selection of the new product,
\* and when the modal closes for it the draft is empty.
C12_AddCreatesDraft ==
    /\ []CreatedAsDrafted
    /\ [][CompletionQueuesReset]_vars
    /\ [][CompletionShown]_vars

---------------------------------------------------------------------------
(* Claims about interleaved handlers *)

Settled == {"idle", "done", "failed"}

NoStoreHandlerInFlight ==
    /\ \A a \in AddIds : adds[a].pc \in Settled
    /\ \A d \in DelIds : dels[d].pc \in Settled

\* C13: whenever no handleAddProduct and no handleDeleteProduct is in flight,
\* every ProductPhoto in the store references a Product that exists.
C13_PhotosLinked ==
    NoStoreHandlerInFlight => \A r \in photos : r.productId \in ProductIds

\* C14: the draft, once the queued updaters have been applied, holds every
\* photo whose read completed and that was not removed and every component
\* that was added and not removed, each once and in the order added.
C14_NoDraftEditLost ==
    /\ Flushed.photos = draftLog.photos
    /\ Flushed.components = draftLog.components

\* C15: whenever no handler is in flight and every update it queued has been
\* rendered, selectedProductId is null or the id of a Product in the store.
C15_SelectionExists ==
    (/\ NoStoreHandlerInFlight
     /\ \A i \in ExportIds : exports[i].pc \in Settled
     /\ searches = <<>>
     /\ updating = NoUpdate
     /\ pending = NoPending) =>
        (selectedProductId = Null \/ selectedProductId \in ProductIds)

---------------------------------------------------------------------------
(* Claims about the order of handleDeleteProduct *)

Range(seq) == {seq[k] : k \in 1..Len(seq)}

OwnedComponents(id) == {c \in ComponentIds : comps[c].productId = id}
OwnedPhotos(id)     == {r.id : r \in {q \in photos : q.productId = id}}

IsDetached(c)   == comps[c].productId = NoProduct
PhotoRemoved(p) == \A r \in photos : r.id # p

\* the Product of a deletion is stored, or another deletion of it has removed it
StillStored(d) ==
    \/ dels[d].id \in ProductIds
    \/ \E o \in DelIds \ {d} : dels[o].id = dels[d].id /\ dels[o].pc = "done"

\* where a deletion stands, by what it has already done
DeleteStagesInOrder ==
    \A d \in DelIds :
        LET e == dels[d]
        IN  /\ e.pc = "updateComponent" =>
                   \A k \in 1..(e.k - 1) : IsDetached(e.comps[k])
            /\ e.pc \in {"queryPhotos", "deletePhoto", "deleteProduct", "done"} =>
                   \A c \in Range(e.comps) : IsDetached(c)
            /\ e.pc = "deletePhoto" =>
                   \A k \in 1..(e.k - 1) : PhotoRemoved(e.photos[k])
            /\ e.pc \in {"deleteProduct", "done"} =>
                   \A p \in Range(e.photos) : PhotoRemoved(p)
            /\ e.pc \in {"queryComponents", "updateComponent", "queryPhotos",
                          "deletePhoto", "deleteProduct", "failed"} => StillStored(d)

DeleteSteps ==
    /\ \A d \in DelIds :
           \* the two queries give the handler what the product owns just then
           /\ (dels[d].pc = "queryComponents" /\ dels'[d].pc \notin {"queryComponents", "failed"})
                  => Range(dels'[d].comps) = OwnedComponents(dels[d].id)
           /\ (dels[d].pc = "queryPhotos" /\ dels'[d].pc \notin {"queryPhotos", "failed"})
                  => Range(dels'[d].photos) = OwnedPhotos(dels[d].id)
           \* a failing step changes nothing else, and nothing follows it
           /\ (dels[d].pc \notin Settled /\ dels'[d].pc = "failed")
                  => /\ products' = products /\ comps' = comps /\ photos' = photos
                     /\ selectedProductId' = selectedProductId
                     /\ pending' = pending
           /\ dels[d].pc = "failed" => dels'[d] = dels[d]
    \* a Product leaves the store only as the last step of a deletion of it
    /\ \A r \in products \ products' :
           \E d \in DelIds : /\ dels[d].id = r.id
                             /\ dels[d].pc = "deleteProduct" /\ dels'[d].pc = "done"
    \* no detachment is undone
    /\ \A c \in ComponentIds : IsDetached(c) => comps'[c].productId = NoProduct

\* C17: handleDeleteProduct detaches every component its query returned, then
\* removes every photo its query returned, then removes the Product; a step
\* that fails ends the handler with the Product still stored, the selection
\* as it was and the components detached so far still detached.
C17_ProductRemovedLast == []DeleteStagesInOrder /\ [][DeleteSteps]_vars

\* a deletion that detached its component and then failed to remove the photo
C17_Witness ==
    \E d \in DelIds :
        /\ dels[d].pc = "failed"
        /\ dels[d].comps # <<>> /\ IsDetached(dels[d].comps[1])
        /\ dels[d].photos # <<>> /\ ~PhotoRemoved(dels[d].photos[1])
        /\ dels[d].id \in ProductIds
        /\ selectedProductId = dels[d].id

====
